---- MODULE Spec2Model ----
(***************************************************************************)
(* Model of the local strategy backtester (run_backtest, version 2) that   *)
(* replays the signal stream of strategy.generate_signals against hourly   *)
(* close prices.                                                           *)
(*                                                                         *)
(* Numbers.  The program computes in double precision.  The model computes *)
(* in exact rational arithmetic: a number is a record [n, d] with d > 0    *)
(* and gcd(|n|, d) = 1.  Two records with d = 0 are not numbers: NaN is    *)
(* the missing observation of a price table (pd.isna), and Huge marks a    *)
(* result whose numerator or denominator leaves the range the model        *)
(* computes in (MaxMagnitude).  A row whose processing produces Huge is    *)
(* not part of the explored input space.                                   *)
(***************************************************************************)
EXTENDS Integers, Sequences, FiniteSets

(***************************************************************************)
(* Bounds of the exploration                                               *)
(***************************************************************************)
\* longest signal stream (rows of sim_df) that is replayed
MaxEvents == 3
\* longest stream replayed after two opening BUYs
MaxTiedEvents == 2
\* rows of target_df that generate_signals loops over for each symbol
MaxRows == 4
\* largest numerator / denominator of a number of the model
MaxMagnitude == 1050000000

(***************************************************************************)
(* Exact rational arithmetic standing for the float operators of the code  *)
(***************************************************************************)
NaN == [n |-> 0, d |-> 0]
Huge == [n |-> 1, d |-> 0]

Abs(k) == IF k < 0 THEN -k ELSE k

RECURSIVE GCD(_, _)
GCD(a, b) == IF b = 0 THEN a ELSE IF b = 1 THEN 1 ELSE GCD(b, a % b)

\* a * b stays within MaxMagnitude (a, b >= 0)
FitsMul(a, b) == b = 0 \/ a <= MaxMagnitude \div b

IsNum(x) == x.d > 0

R(a, b) == LET g == GCD(Abs(a), b) IN [n |-> a \div g, d |-> b \div g]

Zero == R(0, 1)
One == R(1, 1)

RNeg(x) == IF IsNum(x) THEN [n |-> -x.n, d |-> x.d] ELSE x

RAdd(x, y) ==
    IF ~IsNum(x) THEN x
    ELSE IF ~IsNum(y) THEN y
    ELSE IF x.n = 0 THEN y
    ELSE IF y.n = 0 THEN x
    ELSE LET g  == GCD(x.d, y.d)
             xd == x.d \div g
             yd == y.d \div g
         IN IF FitsMul(xd, y.d) /\ FitsMul(Abs(x.n), yd) /\ FitsMul(Abs(y.n), xd)
            THEN LET s == R(x.n * yd + y.n * xd, xd * y.d)
                 IN IF Abs(s.n) <= MaxMagnitude THEN s ELSE Huge
            ELSE Huge

RSub(x, y) == RAdd(x, RNeg(y))

RMul(x, y) ==
    IF ~IsNum(x) THEN x
    ELSE IF ~IsNum(y) THEN y
    ELSE IF x.n = 0 \/ y.n = 0 THEN [n |-> 0, d |-> 1]
    ELSE LET g1 == GCD(Abs(x.n), y.d)
             g2 == GCD(Abs(y.n), x.d)
             a  == x.n \div g1
             b  == y.n \div g2
             c  == x.d \div g2
             e  == y.d \div g1
         IN IF FitsMul(Abs(a), Abs(b)) /\ FitsMul(c, e)
            THEN [n |-> a * b, d |-> c * e]
            ELSE Huge

\* x / y for y # 0
RDiv(x, y) ==
    IF ~IsNum(x) THEN x
    ELSE IF ~IsNum(y) THEN y
    ELSE RMul(x, IF y.n < 0 THEN [n |-> -y.d, d |-> -y.n] ELSE [n |-> y.d, d |-> y.n])

\* a/b < c/d for b, d > 0, by the continued-fraction expansion (no products)
RECURSIVE LtFrac(_, _, _, _)
LtFrac(a, b, c, d) ==
    LET q1 == a \div b
        q2 == c \div d
        r1 == a % b
        r2 == c % d
    IN IF q1 # q2 THEN q1 < q2
       ELSE IF r2 = 0 THEN FALSE
       ELSE IF r1 = 0 THEN TRUE
       ELSE LtFrac(d, r2, b, r1)

\* a comparison with a missing value is false, as in Python
RLt(x, y) == IsNum(x) /\ IsNum(y) /\ LtFrac(x.n, x.d, y.n, y.d)
RGt(x, y) == RLt(y, x)
RLe(x, y) == IsNum(x) /\ IsNum(y) /\ ~RLt(y, x)
RGe(x, y) == RLe(y, x)

(***************************************************************************)
(* Program constants and metadata                                          *)
(***************************************************************************)
initial_capital == R(10000, 1)
\* mutant: the fee rate left at zero
fee_pct_Zero == R(0, 1)
fee_pct == R(1, 1000)
\* threshold under which a position is reset
ShareEpsilon == R(1, 1000000000)
\* BUY needs cash > 1.0
MinCash == One

\* get_coin_metadata(): the tradable symbols, in the order of the positions
\* dict (two of the three targets of strategy.py), and one anchor
TargetList == <<"LDO", "PEPE">>
Anchors == {"BTC"}
\* mutant: positions and price columns built from targets + anchors
Targets_AllConfigs == {TargetList[k] : k \in 1..Len(TargetList)} \cup Anchors
Targets == {TargetList[k] : k \in 1..Len(TargetList)}

(***************************************************************************)
(* Inputs: the rows of sim_df                                              *)
(***************************************************************************)
Sizes == {R(0, 1), R(1, 5), R(1, 2), R(1, 1)}

\* (symbol, signal, position_size) of a SignalEvent
RowChoices ==
    [symbol : {"LDO"}, signal : {"BUY"}, position_size : Sizes \ {R(1, 2)}]
    \cup [symbol : {"LDO"}, signal : {"SELL"}, position_size : Sizes \ {R(1, 5)}]
    \cup [symbol : {"LDO"}, signal : {"HOLD"}, position_size : {R(0, 1)}]
    \cup [symbol : {"PEPE"}, signal : {"BUY"}, position_size : {R(1, 2)}]
    \cup [symbol : Anchors, signal : {"BUY"}, position_size : {R(1, 2)}]

\* the SignalEvents of the streams that open with a BUY of both targets
TiedRowChoices ==
    [symbol : {"LDO"}, signal : {"BUY"}, position_size : {R(1, 5)}]
    \cup [symbol : {"PEPE"}, signal : {"BUY"}, position_size : {R(1, 2)}]
    \cup [symbol : Targets, signal : {"SELL"}, position_size : {R(1, 2), R(1, 1)}]
    \cup [symbol : Targets, signal : {"HOLD"}, position_size : {R(0, 1)}]

\* the close_<symbol>_1H cells merged onto the rows of one timestamp
PriceRows ==
    { [s \in Targets |-> IF s = "LDO" THEN R(1, 1) ELSE R(1, 1)],
      [s \in Targets |-> IF s = "LDO" THEN R(11, 10) ELSE R(1, 1)],
      [s \in Targets |-> IF s = "LDO" THEN NaN ELSE R(11, 10)] }

MkRow(t, c, p) ==
    [timestamp |-> t, symbol |-> c.symbol, signal |-> c.signal,
     position_size |-> c.position_size, close |-> p]

(***************************************************************************)
(* State of run_backtest                                                   *)
(***************************************************************************)
VARIABLES
    pc,                 \* the step run_backtest is at: "fetch", "signals",
                        \* "prepare", "simulate"; "done" after the report,
                        \* "aborted" after an early return, "error" after
                        \* an exception nothing catches
    full_df,            \* "unset" until get_market_data returned
    signals_df,         \* "unset", "generated" or "empty_frame"
    sim_df,             \* the rows of sim_df iterated so far
    cash,
    positions,          \* symbol -> [shares, avg_cost]
    portfolio_history,
    trade_log,
    ledger,             \* history variable: cash, positions and trade log
                        \* as left by each iteration of the loop
    final_value,        \* NaN until step 5
    total_return_pct,   \* NaN until step 5
    sharpe_ratio,       \* NaN until step 5; held as SignedSquare
    max_drawdown_pct,   \* NaN until step 5
    win_rate,           \* NaN until step 5
    \* state of a call of generate_signals
    gpc,                \* "idle"; "rows" in the loop over the rows of a
                        \* symbol; "returned", "returned_empty", "raised"
    strategy_module,    \* "strategy" (strategy.py) or "temp" (temp.py)
    target_symbols,     \* the symbols in the order the outer loop takes them
    result,             \* the frames appended so far, one per symbol
    df,                 \* the rows of the current symbol written so far
    prev_sma,           \* sma_fast and sma_slow of the row before
    in_position,
    entry_price,
    full_signals,       \* the returned rows
    target_df           \* symbol -> the close_<symbol>_1H cells, row by row,
                        \* of a run on a fetched table; <<>> where the cells
                        \* are drawn as the rows are read

vars == <<pc, full_df, signals_df, sim_df, cash, positions, portfolio_history, trade_log, ledger,
          final_value, total_return_pct, sharpe_ratio, max_drawdown_pct, win_rate,
          gpc, strategy_module, target_symbols, result, df, prev_sma, in_position,
          entry_price, full_signals, target_df>>

\* the simulation state the loop body reads and writes
SimState(c, p, h, l) ==
    [cash |-> c, positions |-> p, portfolio_history |-> h, trade_log |-> l]

InitialSimState ==
    SimState(initial_capital,
             [s \in Targets |-> [shares |-> Zero, avg_cost |-> Zero]],
             <<>>, <<>>)

\* sum over the positions dict of shares * close, skipping missing prices
RECURSIVE HoldingsFrom(_, _, _)
HoldingsFrom(k, pos, close) ==
    IF k > Len(TargetList) THEN Zero
    ELSE LET s == TargetList[k]
             rest == HoldingsFrom(k + 1, pos, close)
         IN IF close[s] # NaN
            THEN RAdd(RMul(pos[s].shares, close[s]), rest)
            ELSE rest

current_holdings_value(pos, close) == HoldingsFrom(1, pos, close)

\* cash + current_holdings_value
\* mutant: the cash left out of the portfolio value
portfolio_value_HoldingsOnly(st, close) == current_holdings_value(st.positions, close)
portfolio_value(st, close) == RAdd(st.cash, current_holdings_value(st.positions, close))

\* mutant: a missing price of a target read as 0
RowPrice_FillZero(row) ==
    IF row.symbol \in Targets
    THEN IF row.close[row.symbol] = NaN THEN Zero ELSE row.close[row.symbol]
    ELSE NaN
\* row[price_col] if price_col in row else np.nan
RowPrice(row) == IF row.symbol \in Targets THEN row.close[row.symbol] ELSE NaN

Poison(st) == [st EXCEPT !.cash = Huge]

\* mutant: the average cost taken from the amount paid, fee included
BuyStep_FeeInCost(st, row, price) ==
    LET symbol == row.symbol
        investment_amount == RMul(st.cash, row.position_size)
        fee == RMul(investment_amount, fee_pct)
        actual_investment == RSub(investment_amount, fee)
        shares_to_buy == RDiv(actual_investment, price)
        old_shares == st.positions[symbol].shares
        old_cost == st.positions[symbol].avg_cost
        new_shares == RAdd(old_shares, shares_to_buy)
        new_cost == IF RGt(new_shares, Zero)
                    THEN RDiv(RAdd(RMul(old_cost, old_shares), investment_amount),
                              new_shares)
                    ELSE old_cost
    IN IF ~IsNum(new_shares) THEN Poison(st)
       ELSE [st EXCEPT
               !.cash = RSub(st.cash, investment_amount),
               !.positions[symbol] = [shares |-> new_shares, avg_cost |-> new_cost],
               !.trade_log = Append(@, [type |-> "BUY", symbol |-> symbol,
                                        price |-> price, pnl |-> Zero])]

\* mutant: the average cost taken as the plain mean of old cost and price
BuyStep_PlainMean(st, row, price) ==
    LET symbol == row.symbol
        investment_amount == RMul(st.cash, row.position_size)
        fee == RMul(investment_amount, fee_pct)
        actual_investment == RSub(investment_amount, fee)
        shares_to_buy == RDiv(actual_investment, price)
        old_shares == st.positions[symbol].shares
        old_cost == st.positions[symbol].avg_cost
        new_shares == RAdd(old_shares, shares_to_buy)
        new_cost == IF RGt(new_shares, Zero)
                    THEN RDiv(RAdd(old_cost, price), R(2, 1))
                    ELSE old_cost
    IN IF ~IsNum(new_shares) THEN Poison(st)
       ELSE [st EXCEPT
               !.cash = RSub(st.cash, investment_amount),
               !.positions[symbol] = [shares |-> new_shares, avg_cost |-> new_cost],
               !.trade_log = Append(@, [type |-> "BUY", symbol |-> symbol,
                                        price |-> price, pnl |-> Zero])]

\* mutant: the stake sized on the initial capital, not on the cash at hand
BuyStep_FixedStake(st, row, price) ==
    LET symbol == row.symbol
        investment_amount == RMul(initial_capital, row.position_size)
        fee == RMul(investment_amount, fee_pct)
        shares_to_buy == RDiv(RSub(investment_amount, fee), price)
        old_shares == st.positions[symbol].shares
        old_cost == st.positions[symbol].avg_cost
        new_shares == RAdd(old_shares, shares_to_buy)
        new_cost == IF RGt(new_shares, Zero)
                    THEN RDiv(RAdd(RMul(old_cost, old_shares),
                                   RMul(price, shares_to_buy)), new_shares)
                    ELSE old_cost
    IN IF ~IsNum(new_shares) THEN Poison(st)
       ELSE [st EXCEPT
               !.cash = RSub(st.cash, investment_amount),
               !.positions[symbol] = [shares |-> new_shares, avg_cost |-> new_cost],
               !.trade_log = Append(@, [type |-> "BUY", symbol |-> symbol,
                                        price |-> price, pnl |-> Zero])]

\* mutant: the fee charged on top of the investment
BuyStep_FeeOnTop(st, row, price) ==
    LET symbol == row.symbol
        investment_amount == RMul(st.cash, row.position_size)
        fee == RMul(investment_amount, fee_pct)
        shares_to_buy == RDiv(RSub(investment_amount, fee), price)
        old_shares == st.positions[symbol].shares
        old_cost == st.positions[symbol].avg_cost
        new_shares == RAdd(old_shares, shares_to_buy)
        new_cost == IF RGt(new_shares, Zero)
                    THEN RDiv(RAdd(RMul(old_cost, old_shares),
                                   RMul(price, shares_to_buy)), new_shares)
                    ELSE old_cost
    IN IF ~IsNum(new_shares) THEN Poison(st)
       ELSE [st EXCEPT
               !.cash = RSub(st.cash, RAdd(investment_amount, fee)),
               !.positions[symbol] = [shares |-> new_shares, avg_cost |-> new_cost],
               !.trade_log = Append(@, [type |-> "BUY", symbol |-> symbol,
                                        price |-> price, pnl |-> Zero])]

BuyStep(st, row, price) ==
    LET symbol == row.symbol
        investment_amount == RMul(st.cash, row.position_size)
        fee == RMul(investment_amount, fee_pct)
        actual_investment == RSub(investment_amount, fee)
        shares_to_buy == RDiv(actual_investment, price)
        old_shares == st.positions[symbol].shares
        old_cost == st.positions[symbol].avg_cost
        new_shares == RAdd(old_shares, shares_to_buy)
        new_cost == IF RGt(new_shares, Zero)
                    THEN RDiv(RAdd(RMul(old_cost, old_shares),
                                   RMul(price, shares_to_buy)), new_shares)
                    ELSE old_cost
    IN IF ~IsNum(new_shares) THEN Poison(st)
       ELSE [st EXCEPT
               !.cash = RSub(st.cash, investment_amount),
               !.positions[symbol] = [shares |-> new_shares, avg_cost |-> new_cost],
               !.trade_log = Append(@, [type |-> "BUY", symbol |-> symbol,
                                        price |-> price, pnl |-> Zero])]

\* mutant: the whole position sold whatever the position_size (version 1)
SellStep_SellAll(st, row, price) ==
    LET symbol == row.symbol
        shares_to_sell == st.positions[symbol].shares
        sale_value == RMul(shares_to_sell, price)
        fee == RMul(sale_value, fee_pct)
        pnl == RMul(RSub(price, st.positions[symbol].avg_cost), shares_to_sell)
    IN IF ~IsNum(sale_value) THEN Poison(st)
       ELSE [st EXCEPT
               !.cash = RAdd(st.cash, RSub(sale_value, fee)),
               !.trade_log = Append(@, [type |-> "SELL", symbol |-> symbol,
                                        price |-> price, pnl |-> pnl]),
               !.positions[symbol] = [shares |-> Zero, avg_cost |-> Zero]]

\* mutant: the proceeds credited without the fee
SellStep_NoFee(st, row, price) ==
    LET symbol == row.symbol
        shares_to_sell == RMul(st.positions[symbol].shares, row.position_size)
        sale_value == RMul(shares_to_sell, price)
        pnl == RMul(RSub(price, st.positions[symbol].avg_cost), shares_to_sell)
        left == RSub(st.positions[symbol].shares, shares_to_sell)
    IN IF ~IsNum(shares_to_sell) \/ ~IsNum(left) THEN Poison(st)
       ELSE IF RGt(shares_to_sell, Zero)
       THEN [st EXCEPT
               !.cash = RAdd(st.cash, sale_value),
               !.trade_log = Append(@, [type |-> "SELL", symbol |-> symbol,
                                        price |-> price, pnl |-> pnl]),
               !.positions[symbol] =
                   IF RLt(left, ShareEpsilon)
                   THEN [shares |-> Zero, avg_cost |-> Zero]
                   ELSE [shares |-> left, avg_cost |-> @.avg_cost]]
       ELSE st

\* mutant: closing one position resets every position
SellStep_ResetAll(st, row, price) ==
    LET symbol == row.symbol
        shares_to_sell == RMul(st.positions[symbol].shares, row.position_size)
        sale_value == RMul(shares_to_sell, price)
        fee == RMul(sale_value, fee_pct)
        pnl == RMul(RSub(price, st.positions[symbol].avg_cost), shares_to_sell)
        left == RSub(st.positions[symbol].shares, shares_to_sell)
    IN IF ~IsNum(shares_to_sell) \/ ~IsNum(left) THEN Poison(st)
       ELSE IF RGt(shares_to_sell, Zero)
       THEN [st EXCEPT
               !.cash = RAdd(st.cash, RSub(sale_value, fee)),
               !.trade_log = Append(@, [type |-> "SELL", symbol |-> symbol,
                                        price |-> price, pnl |-> pnl]),
               !.positions =
                   IF RLt(left, ShareEpsilon)
                   THEN [s \in Targets |-> [shares |-> Zero, avg_cost |-> Zero]]
                   ELSE [@ EXCEPT ![symbol].shares = left]]
       ELSE st

\* mutant: the fee taken from the proceeds twice
SellStep_FeeTwice(st, row, price) ==
    LET symbol == row.symbol
        shares_to_sell == RMul(st.positions[symbol].shares, row.position_size)
        sale_value == RMul(shares_to_sell, price)
        fee == RMul(sale_value, fee_pct)
        pnl == RMul(RSub(price, st.positions[symbol].avg_cost), shares_to_sell)
        left == RSub(st.positions[symbol].shares, shares_to_sell)
    IN IF ~IsNum(shares_to_sell) \/ ~IsNum(left) THEN Poison(st)
       ELSE IF RGt(shares_to_sell, Zero)
       THEN [st EXCEPT
               !.cash = RAdd(st.cash, RSub(RSub(sale_value, fee), fee)),
               !.trade_log = Append(@, [type |-> "SELL", symbol |-> symbol,
                                        price |-> price, pnl |-> pnl]),
               !.positions[symbol] =
                   IF RLt(left, ShareEpsilon)
                   THEN [shares |-> Zero, avg_cost |-> Zero]
                   ELSE [shares |-> left, avg_cost |-> @.avg_cost]]
       ELSE st

\* mutant: a closed position keeps its avg_cost
SellStep_NoReset(st, row, price) ==
    LET symbol == row.symbol
        shares_to_sell == RMul(st.positions[symbol].shares, row.position_size)
        sale_value == RMul(shares_to_sell, price)
        fee == RMul(sale_value, fee_pct)
        pnl == RMul(RSub(price, st.positions[symbol].avg_cost), shares_to_sell)
        left == RSub(st.positions[symbol].shares, shares_to_sell)
    IN IF ~IsNum(shares_to_sell) \/ ~IsNum(left) THEN Poison(st)
       ELSE IF RGt(shares_to_sell, Zero)
       THEN [st EXCEPT
               !.cash = RAdd(st.cash, RSub(sale_value, fee)),
               !.trade_log = Append(@, [type |-> "SELL", symbol |-> symbol,
                                        price |-> price, pnl |-> pnl]),
               !.positions[symbol].shares = left]
       ELSE st

SellStep(st, row, price) ==
    LET symbol == row.symbol
        shares_to_sell == RMul(st.positions[symbol].shares, row.position_size)
        sale_value == RMul(shares_to_sell, price)
        fee == RMul(sale_value, fee_pct)
        pnl == RMul(RSub(price, st.positions[symbol].avg_cost), shares_to_sell)
        left == RSub(st.positions[symbol].shares, shares_to_sell)
    IN IF ~IsNum(shares_to_sell) \/ ~IsNum(left) THEN Poison(st)
       ELSE IF RGt(shares_to_sell, Zero)
       THEN [st EXCEPT
               !.cash = RAdd(st.cash, RSub(sale_value, fee)),
               !.trade_log = Append(@, [type |-> "SELL", symbol |-> symbol,
                                        price |-> price, pnl |-> pnl]),
               !.positions[symbol] =
                   IF RLt(left, ShareEpsilon)
                   THEN [shares |-> Zero, avg_cost |-> Zero]
                   ELSE [shares |-> left, avg_cost |-> @.avg_cost]]
       ELSE st

\* mutant: a BUY that does not test position_size
ProcessRow_NoSizeGuard(st0, row) ==
    LET st == [st0 EXCEPT !.portfolio_history =
                                Append(@, portfolio_value(st0, row.close))]
        price == RowPrice(row)
    IN IF price = NaN THEN st
       ELSE IF row.signal = "BUY" /\ RGt(st.cash, MinCash)
       THEN BuyStep(st, row, price)
       ELSE IF row.signal = "SELL" /\ RGt(st.positions[row.symbol].shares, Zero)
                                  /\ RGt(row.position_size, Zero)
       THEN SellStep(st, row, price)
       ELSE st

\* one iteration of the loop over sim_df.iterrows()
ProcessRow(st0, row) ==
    LET st == [st0 EXCEPT !.portfolio_history =
                                Append(@, portfolio_value(st0, row.close))]
        price == RowPrice(row)
    IN IF price = NaN THEN st
       ELSE IF row.signal = "BUY" /\ RGt(st.cash, MinCash) /\ RGt(row.position_size, Zero)
       THEN BuyStep(st, row, price)
       ELSE IF row.signal = "SELL" /\ RGt(st.positions[row.symbol].shares, Zero)
                                  /\ RGt(row.position_size, Zero)
       THEN SellStep(st, row, price)
       ELSE st

\* ((final_value / initial_capital) - 1) * 100
TotalReturnPct(fv) == RMul(RSub(RDiv(fv, initial_capital), One), R(100, 1))

\* pd.Series(portfolio_history).pct_change().fillna(0)
RECURSIVE ReturnsFrom(_, _, _)
ReturnsFrom(h, k, acc) ==
    IF k > Len(h) THEN acc
    ELSE ReturnsFrom(h, k + 1,
                     Append(acc, IF k = 1 THEN Zero
                                 ELSE RSub(RDiv(h[k], h[k - 1]), One)))

Returns(h) == ReturnsFrom(h, 1, <<>>)

RECURSIVE SumFrom(_, _, _)
SumFrom(xs, k, acc) ==
    IF k > Len(xs) THEN acc ELSE SumFrom(xs, k + 1, RAdd(acc, xs[k]))

\* the sum of the squared distances of xs from m
RECURSIVE SquaresFrom(_, _, _, _)
SquaresFrom(xs, m, k, acc) ==
    IF k > Len(xs) THEN acc
    ELSE LET distance == RSub(xs[k], m)
         IN SquaresFrom(xs, m, k + 1, RAdd(acc, RMul(distance, distance)))

\* Series.mean() and the square of Series.std() (ddof = 1; NaN for one value)
Mean(xs) == RDiv(SumFrom(xs, 1, Zero), R(Len(xs), 1))

Variance(xs, mean) ==
    IF Len(xs) < 2 THEN NaN
    ELSE RDiv(SquaresFrom(xs, mean, 1, Zero), R(Len(xs) - 1, 1))

\* trading_hours_per_year = 365 * 24
HoursPerYear == 8760

\* The Sharpe ratio (mean / std) * sqrt(8760) is irrational; the model holds
\* x * |x| for a ratio x, which has the sign of x, is zero exactly when x is
\* and orders as x does: mean * |mean| * 8760 / variance.
SignedSquare(mean, variance) ==
    RDiv(RMul(RMul(mean, IF mean.n < 0 THEN RNeg(mean) ELSE mean), R(HoursPerYear, 1)),
         variance)

\* mutant: the ratio without the test of the deviation
SharpeRatio_Unguarded(returns) ==
    SignedSquare(Mean(returns), Variance(returns, Mean(returns)))

\* (returns.mean() / returns.std()) * sqrt(8760) if returns.std() > 0 else 0
SharpeRatio(returns) ==
    LET mean == Mean(returns)
        variance == Variance(returns, mean)
    IN IF mean = Huge \/ variance = Huge THEN Huge
       ELSE IF RGt(variance, Zero) THEN SignedSquare(mean, variance)
       ELSE Zero

\* (1 + returns).cumprod()
RECURSIVE CumProdFrom(_, _, _)
CumProdFrom(returns, k, acc) ==
    IF k > Len(returns) THEN acc
    ELSE CumProdFrom(returns, k + 1,
                     Append(acc, IF k = 1 THEN RAdd(One, returns[1])
                                 ELSE RMul(acc[k - 1], RAdd(One, returns[k]))))

\* expanding(min_periods=1).max()
RECURSIVE ExpandingMaxFrom(_, _, _)
ExpandingMaxFrom(xs, k, acc) ==
    IF k > Len(xs) THEN acc
    ELSE ExpandingMaxFrom(xs, k + 1,
                          Append(acc, IF k = 1 THEN xs[1]
                                      ELSE IF RGt(xs[k], acc[k - 1]) THEN xs[k]
                                      ELSE acc[k - 1]))

\* (cumulative_returns / peak) - 1
RECURSIVE DrawdownFrom(_, _, _, _)
DrawdownFrom(cumulative_returns, peak, k, acc) ==
    IF k > Len(peak) THEN acc
    ELSE DrawdownFrom(cumulative_returns, peak, k + 1,
                      Append(acc, RSub(RDiv(cumulative_returns[k], peak[k]), One)))

\* Series.min()
RECURSIVE MinFrom(_, _, _)
MinFrom(xs, k, acc) ==
    IF k > Len(xs) THEN acc
    ELSE MinFrom(xs, k + 1, IF RLt(xs[k], acc) THEN xs[k] ELSE acc)

\* drawdown.min() * 100 of the cumulative returns against their running peak
LowestDrawdownPct(returns) ==
    LET cumulative_returns == CumProdFrom(returns, 1, <<>>)
        peak == ExpandingMaxFrom(cumulative_returns, 1, <<>>)
        drawdown == DrawdownFrom(cumulative_returns, peak, 1, <<>>)
    IN IF \E k \in 1..Len(drawdown) : ~IsNum(drawdown[k]) THEN Huge
       ELSE RMul(MinFrom(drawdown, 2, drawdown[1]), R(100, 1))

\* mutant: the lowest drawdown with its sign
MaxDrawdownPct_Signed(returns) == LowestDrawdownPct(returns)

\* max_drawdown_pct = abs(drawdown.min() * 100)
MaxDrawdownPct(returns) ==
    LET lowest == LowestDrawdownPct(returns)
    IN IF lowest.n < 0 THEN RNeg(lowest) ELSE lowest

\* the SELL entries of the trade log and those among them with pnl > 0
Sells(log) == {k \in 1..Len(log) : log[k].type = "SELL"}
Wins(log) == {k \in Sells(log) : RGt(log[k].pnl, Zero)}

\* mutant: the wins over all entries of the trade log
WinRate_AllTrades(log) ==
    IF Len(log) > 0
    THEN RMul(R(Cardinality(Wins(log)), Len(log)), R(100, 1))
    ELSE Zero

\* win_rate = (len(wins) / total_trades) * 100 if total_trades > 0 else 0
WinRate(log) ==
    IF Cardinality(Sells(log)) > 0
    THEN RMul(R(Cardinality(Wins(log)), Cardinality(Sells(log))), R(100, 1))
    ELSE Zero

\* every number of the state lies in the range the model computes in
Representable(st) ==
    /\ IsNum(st.cash)
    /\ \A s \in Targets : IsNum(st.positions[s].shares) /\ IsNum(st.positions[s].avg_cost)
    /\ \A k \in 1..Len(st.portfolio_history) : IsNum(st.portfolio_history[k])
    /\ \A k \in 1..Len(st.trade_log) : IsNum(st.trade_log[k].pnl)
    /\ st.portfolio_history # <<>> =>
           IsNum(TotalReturnPct(st.portfolio_history[Len(st.portfolio_history)]))

\* the rows that can follow the rows iterated so far: timestamps ascend, the
\* rows of one timestamp carry the same prices and distinct symbols
NextRowsFrom(choices, prices) ==
    IF sim_df = <<>>
    THEN {MkRow(1, c, p) : c \in choices, p \in prices}
    ELSE LET last == sim_df[Len(sim_df)]
             used == {sim_df[k].symbol : k \in {j \in 1..Len(sim_df) :
                                                  sim_df[j].timestamp = last.timestamp}}
         IN {MkRow(last.timestamp, c, last.close) :
                 c \in {x \in choices : x.symbol \notin used}}
            \cup {MkRow(last.timestamp + 1, c, p) : c \in choices, p \in prices}

NextRowsOf(choices) == NextRowsFrom(choices, PriceRows)

NextRows == NextRowsOf(RowChoices)

Cur == SimState(cash, positions, portfolio_history, trade_log)

\* what an iteration leaves behind, as recorded in the ledger
Book(st) == [cash |-> st.cash, positions |-> st.positions, trade_log |-> st.trade_log]

\* no call of generate_signals is modelled
GeneratorIdle ==
    /\ gpc = "idle"
    /\ strategy_module = "strategy"
    /\ target_symbols = <<>>
    /\ result = <<>>
    /\ df = <<>>
    /\ prev_sma = [fast |-> NaN, slow |-> NaN]
    /\ in_position = FALSE
    /\ entry_price = NaN
    /\ full_signals = <<>>
    /\ target_df = <<>>

BacktestInit ==
    /\ pc = "fetch"
    /\ full_df = "unset"
    /\ signals_df = "unset"
    /\ sim_df = <<>>
    /\ cash = InitialSimState.cash
    /\ positions = InitialSimState.positions
    /\ portfolio_history = InitialSimState.portfolio_history
    /\ trade_log = InitialSimState.trade_log
    /\ ledger = <<>>
    /\ final_value = NaN
    /\ total_return_pct = NaN
    /\ sharpe_ratio = NaN
    /\ max_drawdown_pct = NaN
    /\ win_rate = NaN

Init == BacktestInit /\ GeneratorIdle

simvars == <<sim_df, cash, positions, portfolio_history, trade_log, ledger>>

metricvars == <<final_value, total_return_pct, sharpe_ratio, max_drawdown_pct, win_rate>>

callvars == <<gpc, strategy_module, target_symbols, result, df, prev_sma, in_position,
              entry_price, full_signals>>

signalvars == <<callvars, target_df>>

backtestvars == <<pc, full_df, signals_df, simvars, metricvars>>

\* step 1: metadata and market data; an empty configuration list returns,
\* an exception of the provider is caught and returns
FetchOutcomes == {"ok", "no_configs", "provider_error"}

FetchData ==
    /\ pc = "fetch"
    /\ \E outcome \in FetchOutcomes :
          IF outcome = "ok"
          THEN full_df' = "fetched" /\ pc' = "signals"
          ELSE full_df' = full_df /\ pc' = "aborted"
    /\ UNCHANGED <<signals_df, simvars, metricvars, signalvars>>

\* step 2: strategy.generate_signals; an exception is caught and returns.
\* A strategy may also print an error and return a frame without columns.
SignalOutcomes == {"ok", "raises", "empty_frame"}

GenerateSignals ==
    /\ pc = "signals"
    /\ \E outcome \in SignalOutcomes :
          CASE outcome = "ok" -> signals_df' = "generated" /\ pc' = "prepare"
            [] outcome = "empty_frame" -> signals_df' = "empty_frame" /\ pc' = "prepare"
            [] OTHER -> signals_df' = signals_df /\ pc' = "aborted"
    /\ UNCHANGED <<full_df, simvars, metricvars, signalvars>>

\* step 3: pd.merge(signals_df, prices, on='timestamp'), outside any try;
\* a frame without a timestamp column raises KeyError
Prepare_MergeAnyFrame ==
    /\ pc = "prepare"
    /\ pc' = "simulate"
    /\ UNCHANGED <<full_df, signals_df, simvars, metricvars, signalvars>>

Prepare ==
    /\ pc = "prepare"
    /\ pc' = IF signals_df = "generated" THEN "simulate" ELSE "error"
    /\ UNCHANGED <<full_df, signals_df, simvars, metricvars, signalvars>>

\* step 4: the loop body on the next row of sim_df, a row out of rows, for
\* streams of at most limit rows
Replay(rows, limit) ==
    /\ pc = "simulate"
    /\ Len(sim_df) < limit
    /\ \E row \in rows :
          \E st \in {ProcessRow(Cur, row)} :
             /\ Representable(st)
             /\ sim_df' = Append(sim_df, row)
             /\ cash' = st.cash
             /\ positions' = st.positions
             /\ portfolio_history' = st.portfolio_history
             /\ trade_log' = st.trade_log
             /\ ledger' = Append(ledger, Book(st))
    /\ UNCHANGED <<pc, full_df, signals_df, metricvars, signalvars>>

Step == Replay(NextRows, MaxEvents)

\* step 5 on a non-empty history
Metrics ==
    /\ pc = "simulate"
    /\ portfolio_history # <<>>
    /\ final_value' = portfolio_history[Len(portfolio_history)]
    /\ total_return_pct' = TotalReturnPct(portfolio_history[Len(portfolio_history)])
    /\ \E returns \in {Returns(portfolio_history)} :
          /\ sharpe_ratio' = SharpeRatio(returns)
          /\ max_drawdown_pct' = MaxDrawdownPct(returns)
    /\ win_rate' = WinRate(trade_log)
    /\ pc' = "done"
    /\ UNCHANGED <<full_df, signals_df, simvars, signalvars>>

\* step 5 on an empty history: portfolio_history[-1] raises IndexError
MetricsOnEmpty ==
    /\ pc = "simulate"
    /\ portfolio_history = <<>>
    /\ pc' = "error"
    /\ UNCHANGED <<full_df, signals_df, simvars, metricvars, signalvars>>

Next ==
    \/ FetchData
    \/ GenerateSignals
    \/ Prepare
    \/ Step
    \/ Metrics
    \/ MetricsOnEmpty

Spec == Init /\ [][Next]_vars

\* The streams that open with a BUY of both targets at the first timestamp:
\* the simulation is taken up after the two opening rows.
OpeningBuys ==
    {<<MkRow(1, a, p), MkRow(1, b, p)>> :
        a \in {c \in TiedRowChoices : c.signal = "BUY"},
        b \in {c \in TiedRowChoices : c.signal = "BUY"},
        p \in {q \in PriceRows : \A s \in Targets : q[s] # NaN}}

InitTied ==
    \E opening \in {o \in OpeningBuys : o[1].symbol # o[2].symbol} :
       \E first \in {ProcessRow(InitialSimState, opening[1])} :
          \E second \in {ProcessRow(first, opening[2])} :
             /\ pc = "simulate"
             /\ full_df = "fetched"
             /\ signals_df = "generated"
             /\ sim_df = opening
             /\ cash = second.cash
             /\ positions = second.positions
             /\ portfolio_history = second.portfolio_history
             /\ trade_log = second.trade_log
             /\ ledger = <<Book(first), Book(second)>>
             /\ final_value = NaN
             /\ total_return_pct = NaN
             /\ sharpe_ratio = NaN
             /\ max_drawdown_pct = NaN
             /\ win_rate = NaN
             /\ GeneratorIdle

TiedStep == Replay(NextRowsOf(TiedRowChoices), 2 + MaxTiedEvents)

NextTied == TiedStep \/ Metrics

SpecTied == InitTied /\ [][NextTied]_vars

(***************************************************************************)
(* Streams on a market in which a position is a fraction of a share under  *)
(* the threshold of the reset: nearly all cash goes into PEPE, and LDO is   *)
(* quoted so high that the rest buys about 2e-9 shares.                    *)
(***************************************************************************)
\* longest stream replayed on that market
MaxDustEvents == 3

DustRowChoices ==
    [symbol : {"PEPE"}, signal : {"BUY"}, position_size : {R(4999, 5000)}]
    \cup [symbol : {"LDO"}, signal : {"BUY"}, position_size : {R(1, 2), R(1, 1)}]
    \cup [symbol : {"LDO"}, signal : {"SELL"}, position_size : {R(1, 2), R(1, 1)}]
    \cup [symbol : {"PEPE"}, signal : {"SELL"}, position_size : {R(1, 1)}]
    \cup [symbol : {"LDO"}, signal : {"HOLD"}, position_size : {R(0, 1)}]

DustPriceRows ==
    { [s \in Targets |-> IF s = "LDO" THEN R(524475000, 1) ELSE R(1, 1)],
      [s \in Targets |-> IF s = "LDO" THEN R(1048950000, 1) ELSE R(1, 1)] }

DustStep == Replay(NextRowsFrom(DustRowChoices, DustPriceRows), MaxDustEvents)

NextDust ==
    \/ FetchData
    \/ GenerateSignals
    \/ Prepare
    \/ DustStep
    \/ Metrics
    \/ MetricsOnEmpty

SpecDust == Init /\ [][NextDust]_vars

(***************************************************************************)
(* generate_signals of strategy.py and of temp.py.  The indicator columns  *)
(* (rolling means and bands) are inputs of the row loop; their first row   *)
(* is empty, as a rolling window leaves it.                                *)
(***************************************************************************)
\* Python's None
None == [n |-> 0, d |-> -1]

\* bool(x) of a float or None: None and 0.0 are false, NaN is true
Truthy(x) == x # None /\ x # Zero

\* the targets of temp.py in the order of its metadata (two of the three)
TempTargets == <<"MATIC", "AVAX">>

\* the symbols in the order of Python's string comparison
Alphabet == <<"AVAX", "LDO", "MATIC", "PEPE">>

Rank(symbol) == CHOOSE r \in 1..Len(Alphabet) : Alphabet[r] = symbol

\* all orders of the elements of a set
RECURSIVE Orders(_)
Orders(S) ==
    IF S = {} THEN {<<>>}
    ELSE UNION {{<<x>> \o rest : rest \in Orders(S \ {x})} : x \in S}

\* the close prices and the (sma_fast, sma_slow) cells of a row of strategy.py
ClosePrices == {NaN, R(100, 1), R(106, 1), R(96, 1)}

SmaRows ==
    { [fast |-> NaN, slow |-> NaN],
      [fast |-> R(2, 1), slow |-> NaN],
      [fast |-> R(1, 1), slow |-> R(2, 1)],
      [fast |-> R(3, 1), slow |-> R(2, 1)] }

\* the (price_ratio, lower_band, ratio_sma) cells of a row of temp.py; rows
\* with a missing price are dropped before the loop
TargetPrices == ClosePrices \ {NaN}

RatioRows ==
    [price_ratio : {R(1, 1), R(5, 2), R(4, 1)}, lower_band : {NaN}, ratio_sma : {NaN}]
    \cup [price_ratio : {R(1, 1), R(5, 2), R(4, 1)}, lower_band : {R(2, 1)},
          ratio_sma : {R(3, 1)}]

Verdict(signal, size, pos, entry) ==
    [signal |-> signal, position_size |-> size, in_position |-> pos, entry_price |-> entry]

\* strategy.py, body of the loop over the rows of one symbol
StrategyRow(pos, entry, prev, price, sma) ==
    IF sma.fast = NaN \/ sma.slow = NaN
    THEN Verdict("HOLD", Zero, pos, entry)
    ELSE IF ~pos /\ RGt(sma.fast, sma.slow) /\ RLe(prev.fast, prev.slow)
    THEN Verdict("BUY", R(7, 10), TRUE, price)
    ELSE IF pos /\ price # NaN /\ Truthy(entry)
    THEN LET pnl == RDiv(RSub(price, entry), entry)
         IN IF RGe(pnl, R(5, 100)) \/ RLe(pnl, R(-3, 100))
            THEN Verdict("SELL", Zero, FALSE, None)
            ELSE Verdict("HOLD", R(7, 10), TRUE, entry)
    ELSE IF pos
    THEN Verdict("HOLD", R(7, 10), TRUE, entry)
    ELSE Verdict("HOLD", Zero, pos, entry)

\* mutant: a BUY whenever the ratio is under the band, in position or not
TempRow_NoPositionGuard(pos, entry, price, cells) ==
    IF cells.lower_band = NaN \/ cells.ratio_sma = NaN \/ price = NaN
    THEN Verdict("HOLD", Zero, pos, entry)
    ELSE IF RLt(cells.price_ratio, cells.lower_band)
    THEN Verdict("BUY", R(1, 5), TRUE, price)
    ELSE IF pos
    THEN LET is_stop_loss == RLe(RDiv(RSub(price, entry), entry), R(-3, 100))
             is_take_profit == RGe(cells.price_ratio, cells.ratio_sma)
         IN IF is_stop_loss \/ is_take_profit
            THEN Verdict("SELL", One, FALSE, Zero)
            ELSE Verdict("HOLD", Zero, pos, entry)
    ELSE Verdict("HOLD", Zero, pos, entry)

\* temp.py, body of the loop over the rows of one pair
TempRow(pos, entry, price, cells) ==
    IF cells.lower_band = NaN \/ cells.ratio_sma = NaN \/ price = NaN
    THEN Verdict("HOLD", Zero, pos, entry)
    ELSE IF ~pos /\ RLt(cells.price_ratio, cells.lower_band)
    THEN Verdict("BUY", R(1, 5), TRUE, price)
    ELSE IF pos
    THEN LET is_stop_loss == RLe(RDiv(RSub(price, entry), entry), R(-3, 100))
             is_take_profit == RGe(cells.price_ratio, cells.ratio_sma)
         IN IF is_stop_loss \/ is_take_profit
            THEN Verdict("SELL", One, FALSE, Zero)
            ELSE Verdict("HOLD", Zero, pos, entry)
    ELSE Verdict("HOLD", Zero, pos, entry)

\* pd.concat of the frames
RECURSIVE Concat(_)
Concat(frames) == IF frames = <<>> THEN <<>> ELSE Head(frames) \o Concat(Tail(frames))

RowsAt(rows, t) == {rows[k] : k \in {j \in 1..Len(rows) : rows[j].timestamp = t}}

\* sort_values(['timestamp', 'symbol']): the rows of each timestamp in the
\* order of their symbols
RECURSIVE SortByTimestampAndSymbol(_, _)
SortByTimestampAndSymbol(rows, t) ==
    IF t > MaxRows THEN <<>>
    ELSE (CHOOSE o \in Orders(RowsAt(rows, t)) :
             \A a, b \in 1..Len(o) : a < b => Rank(o[a].symbol) < Rank(o[b].symbol))
         \o SortByTimestampAndSymbol(rows, t + 1)

\* sort_values('timestamp'), an unstable sort on one key: the rows of each
\* timestamp in any order
RECURSIVE SortByTimestamp(_, _)
SortByTimestamp(rows, t) ==
    IF t > MaxRows THEN {<<>>}
    ELSE {o \o rest : o \in Orders(RowsAt(rows, t)),
                      rest \in SortByTimestamp(rows, t + 1)}

\* the constraint check of strategy.py on the sorted rows
ValidSignals(rows) ==
    \A k \in 1..Len(rows) :
        /\ rows[k].signal \in {"BUY", "SELL", "HOLD"}
        /\ RLe(Zero, rows[k].position_size) /\ RLe(rows[k].position_size, One)
        /\ ~(rows[k].signal = "BUY" /\ rows[k].position_size = Zero)
        /\ ~(rows[k].signal = "SELL" /\ rows[k].position_size # Zero)

\* a call of generate_signals: strategy.py iterates a set of symbols, in any
\* order; temp.py iterates the list of its metadata
InitSignals ==
    /\ BacktestInit
    /\ gpc = "rows"
    /\ strategy_module \in {"strategy", "temp"}
    /\ target_symbols \in IF strategy_module = "strategy"
                          THEN Orders(Targets) ELSE {TempTargets}
    /\ result = <<>>
    /\ df = <<>>
    /\ prev_sma = [fast |-> NaN, slow |-> NaN]
    /\ in_position = FALSE
    /\ entry_price = IF strategy_module = "strategy" THEN None ELSE Zero
    /\ full_signals = <<>>
    /\ target_df = <<>>

\* the verdict on row Len(df) + 1 of the current symbol is written to df
WriteRow(v) ==
    /\ df' = Append(df, [timestamp |-> Len(df) + 1, symbol |-> Head(target_symbols),
                         signal |-> v.signal, position_size |-> v.position_size])
    /\ in_position' = v.in_position
    /\ entry_price' = v.entry_price

\* one pass of the loop over the rows of a symbol, the close of the row
\* being one of prices
StrategyRows(prices) ==
    /\ gpc = "rows" /\ strategy_module = "strategy"
    /\ target_symbols # <<>> /\ Len(df) < MaxRows
    /\ \E price \in prices :
          \E sma \in IF df = <<>> THEN {[fast |-> NaN, slow |-> NaN]} ELSE SmaRows :
             /\ WriteRow(StrategyRow(in_position, entry_price, prev_sma, price, sma))
             /\ prev_sma' = sma
    /\ UNCHANGED <<gpc, strategy_module, target_symbols, result, full_signals, target_df,
                   backtestvars>>

StrategyRowStep == StrategyRows(ClosePrices)

TempRowStep ==
    /\ gpc = "rows" /\ strategy_module = "temp"
    /\ target_symbols # <<>> /\ Len(df) < MaxRows
    /\ \E price \in TargetPrices :
          \E cells \in IF df = <<>> THEN {c \in RatioRows : c.lower_band = NaN}
                                    ELSE RatioRows :
             WriteRow(TempRow(in_position, entry_price, price, cells))
    /\ UNCHANGED <<gpc, strategy_module, target_symbols, result, prev_sma, full_signals,
                   target_df, backtestvars>>

\* the frame of the symbol is appended (temp.py: its rows other than HOLD,
\* if there are any) and the outer loop moves on
EndSymbol ==
    /\ gpc = "rows"
    /\ target_symbols # <<>> /\ Len(df) = MaxRows
    /\ result' = IF strategy_module = "strategy" THEN Append(result, df)
                 ELSE LET trade_signals == SelectSeq(df, LAMBDA r : r.signal # "HOLD")
                      IN IF trade_signals # <<>> THEN Append(result, trade_signals)
                         ELSE result
    /\ target_symbols' = Tail(target_symbols)
    /\ df' = <<>>
    /\ prev_sma' = [fast |-> NaN, slow |-> NaN]
    /\ in_position' = FALSE
    /\ entry_price' = IF strategy_module = "strategy" THEN None ELSE Zero
    /\ UNCHANGED <<gpc, strategy_module, full_signals, target_df, backtestvars>>

\* strategy.py: concat, sort, constraint check, return
ReturnStrategy ==
    /\ gpc = "rows" /\ strategy_module = "strategy"
    /\ target_symbols = <<>>
    /\ LET sorted == SortByTimestampAndSymbol(Concat(result), 1)
       IN IF result # <<>> /\ ValidSignals(sorted)
          THEN full_signals' = sorted /\ gpc' = "returned"
          ELSE full_signals' = full_signals /\ gpc' = "raised"
    /\ UNCHANGED <<strategy_module, target_symbols, result, df, prev_sma, in_position,
                   entry_price, target_df, backtestvars>>

\* temp.py: an empty frame without signals, else concat, sort, return
ReturnTemp ==
    /\ gpc = "rows" /\ strategy_module = "temp"
    /\ target_symbols = <<>>
    /\ IF result = <<>>
       THEN full_signals' = full_signals /\ gpc' = "returned_empty"
       ELSE /\ full_signals' \in SortByTimestamp(Concat(result), 1)
            /\ gpc' = "returned"
    /\ UNCHANGED <<strategy_module, target_symbols, result, df, prev_sma, in_position,
                   entry_price, target_df, backtestvars>>

NextSignals ==
    \/ StrategyRowStep
    \/ TempRowStep
    \/ EndSymbol
    \/ ReturnStrategy
    \/ ReturnTemp

SpecSignals == InitSignals /\ [][NextSignals]_vars

(***************************************************************************)
(* run_backtest with strategy.py on a fetched table: the signals are the   *)
(* ones generate_signals returns for the table, and the simulation reads   *)
(* its prices from the same table.                                         *)
(***************************************************************************)
TablePrices == {NaN, R(100, 1), R(106, 1)}

\* close_LDO_1H is any column over TablePrices, close_PEPE_1H stays at 100
TargetTables ==
    {[s \in Targets |-> IF s = "LDO" THEN column ELSE [i \in 1..MaxRows |-> R(100, 1)]] :
        column \in [1..MaxRows -> TablePrices]}

\* step 1 with the table it fetched
FetchTable ==
    /\ pc = "fetch"
    /\ \E outcome \in FetchOutcomes :
          IF outcome = "ok"
          THEN full_df' = "fetched" /\ target_df' \in TargetTables /\ pc' = "signals"
          ELSE full_df' = full_df /\ target_df' = target_df /\ pc' = "aborted"
    /\ UNCHANGED <<signals_df, simvars, metricvars, callvars>>

\* step 2 enters strategy.generate_signals
CallStrategy ==
    /\ pc = "signals" /\ gpc = "idle"
    /\ gpc' = "rows"
    /\ target_symbols' \in Orders(Targets)
    /\ entry_price' = None
    /\ UNCHANGED <<strategy_module, result, df, prev_sma, in_position, full_signals,
                   target_df, backtestvars>>

\* the loop over the rows of a symbol reads the close of the table
TableRowStep == StrategyRows({target_df[Head(target_symbols)][Len(df) + 1]})

\* step 2 after the call: the returned frame, or the exception caught
StrategySignals ==
    /\ pc = "signals" /\ gpc \in {"returned", "raised"}
    /\ IF gpc = "returned"
       THEN signals_df' = "generated" /\ pc' = "prepare"
       ELSE signals_df' = signals_df /\ pc' = "aborted"
    /\ UNCHANGED <<full_df, simvars, metricvars, signalvars>>

\* row k of pd.merge(signals_df, prices, on='timestamp', how='left')
MergedRow(k) ==
    LET r == full_signals[k]
    IN [timestamp |-> r.timestamp, symbol |-> r.symbol, signal |-> r.signal,
        position_size |-> r.position_size,
        close |-> [s \in Targets |-> target_df[s][r.timestamp]]]

RunStep == Replay({MergedRow(Len(sim_df) + 1)}, Len(full_signals))

\* step 5, after the last row
RunMetrics == Len(sim_df) = Len(full_signals) /\ Metrics

NextRun ==
    \/ FetchTable
    \/ CallStrategy
    \/ TableRowStep
    \/ EndSymbol
    \/ ReturnStrategy
    \/ StrategySignals
    \/ Prepare
    \/ RunStep
    \/ RunMetrics

SpecRun == Init /\ [][NextRun]_vars

TypeOK ==
    /\ pc \in {"fetch", "signals", "prepare", "simulate", "done", "aborted", "error"}
    /\ full_df \in {"unset", "fetched"}
    /\ signals_df \in {"unset", "generated", "empty_frame"}
    /\ Len(sim_df) = Len(portfolio_history)
    /\ Len(sim_df) = Len(ledger)
    /\ ledger # <<>> => ledger[Len(ledger)] = Book(Cur)
    /\ Representable(Cur)

(***************************************************************************)
(* The books before and after each row of sim_df                           *)
(***************************************************************************)
\* the books row k finds and the books it leaves
Before(k) == IF k = 1 THEN Book(InitialSimState) ELSE ledger[k - 1]
After(k) == ledger[k]

Rows == 1..Len(sim_df)

\* The rows iterated so far are a prefix of every longer stream, and each
\* prefix is a state of its own: a statement about the row iterated last,
\* holding in every state, holds of every row of every stream.
LastRow == {k \in Rows : k = Len(sim_df)}

\* row k appended an entry to the trade log
Executed(k) == Len(After(k).trade_log) = Len(Before(k).trade_log) + 1

\* rows j and k leave cash, positions and trade log as they found them
SameBook(a, b) ==
    a.cash = b.cash /\ a.positions = b.positions /\ a.trade_log = b.trade_log

\* the first row that carries the timestamp of row k
FirstOfTimestamp(k) ==
    CHOOSE j \in 1..k :
        /\ sim_df[j].timestamp = sim_df[k].timestamp
        /\ \A i \in 1..(j - 1) : sim_df[i].timestamp # sim_df[k].timestamp

(***************************************************************************)
(* C1  Conservation: in a run that executes no trade every value of the    *)
(* portfolio history equals the initial capital, and so does final_value.  *)
(***************************************************************************)
C1_Conservation ==
    trade_log = <<>> =>
        /\ \A k \in 1..Len(portfolio_history) : portfolio_history[k] = initial_capital
        /\ pc = "done" => final_value = initial_capital

\* a finished run of three rows without a trade although a BUY and a SELL
\* were signalled
C1_Witness ==
    /\ pc = "done"
    /\ trade_log = <<>>
    /\ Len(sim_df) >= 3
    /\ \E k \in Rows : sim_df[k].signal = "BUY"
    /\ \E k \in Rows : sim_df[k].signal = "SELL"

(***************************************************************************)
(* C2  The portfolio history holds one value per distinct timestamp of the *)
(* signal stream, also when several events share a timestamp.              *)
(***************************************************************************)
C2_OneValuePerTimestamp ==
    Len(portfolio_history) = Cardinality({sim_df[k].timestamp : k \in Rows})

(***************************************************************************)
(* C3  The value appended for a row of timestamp T is cash + sum of        *)
(* shares * close at T over the state left by the previous timestamp,      *)
(* unaffected by the trades executed at T.                                 *)
(***************************************************************************)
C3_MarkToMarketBeforeTimestamp ==
    \A k \in Rows :
        portfolio_history[k] =
            portfolio_value(Before(FirstOfTimestamp(k)), sim_df[k].close)

(***************************************************************************)
(* C4  Scenario: BUY 0.2 at 1.00 then SELL 1.0 at 1.10 ends with           *)
(* cash = 10195.6022, and the reported final value is that cash, the       *)
(* reported total return 1.96% (to two decimals).                          *)
(***************************************************************************)
IsScenarioRow(row, signal, size, price) ==
    /\ row.symbol = "LDO"
    /\ row.signal = signal
    /\ row.position_size = size
    /\ RowPrice(row) = price

ScenarioStream ==
    /\ Len(sim_df) = 2
    /\ IsScenarioRow(sim_df[1], "BUY", R(1, 5), R(1, 1))
    /\ IsScenarioRow(sim_df[2], "SELL", R(1, 1), R(11, 10))

C4_ScenarioReportedReturn ==
    (pc = "done" /\ ScenarioStream) =>
        /\ cash = R(101956022, 10000)
        /\ final_value = cash
        /\ RLe(R(1955, 1000), total_return_pct)
        /\ RLt(total_return_pct, R(1965, 1000))

(***************************************************************************)
(* C5  Scenario pnl.  Original: the SELL logs pnl = (1.10 - 2000/1998) *   *)
(* 1998 (about 197.6 to 197.8), the average cost after the BUY being the   *)
(* fee-inclusive 2000/1998.  Amended: the average cost after the BUY is    *)
(* the execution price 1.00 and the SELL logs pnl = (1.10 - 1.00) * 1998   *)
(* = 199.8.                                                                *)
(***************************************************************************)
ScenarioPrefix ==
    /\ Len(sim_df) >= 2
    /\ IsScenarioRow(sim_df[1], "BUY", R(1, 5), R(1, 1))
    /\ IsScenarioRow(sim_df[2], "SELL", R(1, 1), R(11, 10))

C5_ScenarioPnlFeeInclusive ==
    ScenarioPrefix =>
        /\ After(1).positions["LDO"] = [shares |-> R(1998, 1), avg_cost |-> R(2000, 1998)]
        /\ RLt(R(197, 1), trade_log[2].pnl)
        /\ RLt(trade_log[2].pnl, R(198, 1))

C5_ScenarioPnlExecutionPrice ==
    ScenarioPrefix =>
        /\ After(1).positions["LDO"] = [shares |-> R(1998, 1), avg_cost |-> R(1, 1)]
        /\ Len(trade_log) >= 2
        /\ trade_log[1] = [type |-> "BUY", symbol |-> "LDO", price |-> R(1, 1), pnl |-> Zero]
        /\ trade_log[2] = [type |-> "SELL", symbol |-> "LDO", price |-> R(11, 10),
                           pnl |-> R(1998, 10)]

C5_Witness == ScenarioPrefix /\ Len(trade_log) >= 2 /\ pc = "done"

(***************************************************************************)
(* C6  Fee monotonicity: an executed BUY from a flat position followed     *)
(* immediately by an executed SELL of the same symbol at the same price    *)
(* leaves cash strictly below the cash before the BUY.                     *)
(***************************************************************************)
\* rows k-1 and k are an executed BUY from flat and an executed SELL of the
\* same symbol at the same price
RoundTripAt(k) ==
    /\ k >= 2
    /\ sim_df[k - 1].signal = "BUY" /\ Executed(k - 1)
    /\ sim_df[k].signal = "SELL" /\ Executed(k)
    /\ sim_df[k].symbol = sim_df[k - 1].symbol
    /\ RowPrice(sim_df[k]) = RowPrice(sim_df[k - 1])
    /\ Before(k - 1).positions[sim_df[k].symbol].shares = Zero

C6_FeeMonotonicity ==
    \A k \in LastRow :
        RoundTripAt(k) => RLt(After(k).cash, Before(k - 1).cash)

\* a round trip with a partial BUY and a partial SELL, not at the start of
\* the run
C6_Witness ==
    \E k \in Rows :
        /\ RoundTripAt(k)
        /\ k >= 3
        /\ sim_df[k - 1].position_size = R(1, 5)
        /\ sim_df[k].position_size = R(1, 2)

(***************************************************************************)
(* C7  Missing price skip: a row whose symbol has no close price at the    *)
(* row's timestamp leaves cash, every position and the trade log           *)
(* unchanged, whatever its signal and position_size.                       *)
(***************************************************************************)
MissingPriceAt(k) ==
    sim_df[k].symbol \in Targets /\ sim_df[k].close[sim_df[k].symbol] = NaN

C7_MissingPriceSkip ==
    \A k \in LastRow :
        MissingPriceAt(k) => SameBook(After(k), Before(k))

\* a SELL of a held symbol and a BUY with cash at hand, both at a missing
\* price
C7_Witness ==
    \E j, k \in Rows :
        /\ MissingPriceAt(j) /\ MissingPriceAt(k)
        /\ sim_df[j].signal = "SELL" /\ RGt(sim_df[j].position_size, Zero)
        /\ RGt(Before(j).positions[sim_df[j].symbol].shares, Zero)
        /\ sim_df[k].signal = "BUY" /\ RGt(sim_df[k].position_size, Zero)
        /\ RGt(Before(k).cash, MinCash)

(***************************************************************************)
(* C8  Partial sell: an executed SELL with 0 < position_size < 1 that      *)
(* leaves at least 1e-9 shares leaves shares * (1 - position_size) at the  *)
(* unchanged avg_cost and every other position unchanged; selling 0.5 of   *)
(* 10 shares leaves exactly 5.                                             *)
(***************************************************************************)
PartialSellAt(k) ==
    /\ sim_df[k].signal = "SELL" /\ Executed(k)
    /\ RGt(sim_df[k].position_size, Zero) /\ RLt(sim_df[k].position_size, One)
    /\ RGe(After(k).positions[sim_df[k].symbol].shares, ShareEpsilon)

TenShares ==
    [InitialSimState EXCEPT !.positions["LDO"] = [shares |-> R(10, 1), avg_cost |-> R(11, 10)]]

C8_PartialSell ==
    /\ \A k \in LastRow :
          PartialSellAt(k) =>
             LET s == sim_df[k].symbol
             IN /\ After(k).positions[s].shares =
                      RMul(Before(k).positions[s].shares, RSub(One, sim_df[k].position_size))
                /\ After(k).positions[s].avg_cost = Before(k).positions[s].avg_cost
                /\ \A o \in Targets \ {s} : After(k).positions[o] = Before(k).positions[o]
    /\ \A p \in PriceRows :
          (sim_df = <<>> /\ p["LDO"] # NaN) =>
             SellStep(TenShares, MkRow(1, [symbol |-> "LDO", signal |-> "SELL",
                                           position_size |-> R(1, 2)], p),
                      p["LDO"]).positions
                 = [TenShares.positions EXCEPT !["LDO"].shares = R(5, 1)]

\* a partial SELL of one symbol while the other symbol is held too
C8_Witness ==
    \E k \in Rows :
        /\ PartialSellAt(k)
        /\ sim_df[k].position_size = R(1, 2)
        /\ \E o \in Targets \ {sim_df[k].symbol} : RGt(After(k).positions[o].shares, Zero)

(***************************************************************************)
(* C9  Average cost: from a flat position, two executed BUYs of a symbol,  *)
(* of a1 shares at p1 and a2 shares at p2, leave                           *)
(* avg_cost = (a1 * p1 + a2 * p2) / (a1 + a2).                             *)
(***************************************************************************)
\* rows j < k are the first two executed BUYs of a symbol that was flat
TwoBuysAt(j, k) ==
    /\ j < k
    /\ sim_df[j].symbol = sim_df[k].symbol
    /\ sim_df[j].signal = "BUY" /\ Executed(j)
    /\ sim_df[k].signal = "BUY" /\ Executed(k)
    /\ Before(j).positions[sim_df[j].symbol].shares = Zero
    /\ Before(k).positions[sim_df[j].symbol] = After(j).positions[sim_df[j].symbol]

C9_AverageCost ==
    \A j \in Rows, k \in LastRow :
        TwoBuysAt(j, k) =>
            LET s  == sim_df[j].symbol
                a1 == After(j).positions[s].shares
                a2 == RSub(After(k).positions[s].shares, a1)
                p1 == RowPrice(sim_df[j])
                p2 == RowPrice(sim_df[k])
            IN /\ RGt(a1, Zero) /\ RGt(a2, Zero)
               /\ After(k).positions[s].avg_cost =
                     RDiv(RAdd(RMul(a1, p1), RMul(a2, p2)), RAdd(a1, a2))

\* two BUYs at different prices and of different amounts
C9_Witness ==
    \E j, k \in Rows :
        /\ TwoBuysAt(j, k)
        /\ RowPrice(sim_df[j]) # RowPrice(sim_df[k])
        /\ sim_df[j].position_size # sim_df[k].position_size

(***************************************************************************)
(* C10  Anchors are never traded: a row whose symbol is an anchor leaves   *)
(* cash, positions and trade log unchanged; no position exists for an      *)
(* anchor and no trade log entry names one.                                *)
(***************************************************************************)
C10_AnchorsNeverTraded ==
    /\ \A k \in LastRow :
          sim_df[k].symbol \in Anchors => SameBook(After(k), Before(k))
    /\ DOMAIN positions = Targets
    /\ \A k \in 1..Len(trade_log) : trade_log[k].symbol \notin Anchors

\* a BUY of an anchor with cash at hand, at a timestamp at which a target
\* is traded
C10_Witness ==
    \E j, k \in Rows :
        /\ sim_df[k].symbol \in Anchors
        /\ sim_df[k].signal = "BUY" /\ RGt(sim_df[k].position_size, Zero)
        /\ RGt(Before(k).cash, MinCash)
        /\ sim_df[j].timestamp = sim_df[k].timestamp
        /\ Executed(j)


(***************************************************************************)
(* The steps before the simulation                                         *)
(***************************************************************************)
\* the loop of step 4 was entered
Simulated == sim_df # <<>> \/ portfolio_history # <<>> \/ trade_log # <<>>

\* a metric of step 5 was computed
Reported == \E i \in 1..Len(metricvars) : metricvars[i] # NaN

\* C11: a run that ended on missing configurations, a provider failure or a
\* failure of generate_signals never entered the simulation loop and
\* computed no metric; the loop and the metrics are reached only after the
\* market data was fetched and the signals were generated.
C11_FatalErrorsAllOrNothing ==
    /\ pc = "aborted" => ~Simulated /\ ~Reported
    /\ signals_df # "generated" => ~Simulated /\ ~Reported
    /\ (pc \in {"simulate", "done"} \/ Simulated \/ Reported) =>
           full_df = "fetched" /\ signals_df = "generated"

\* generate_signals failed after the market data was fetched
C11_Witness == pc = "aborted" /\ full_df = "fetched"

(***************************************************************************)
(* The metrics of step 5                                                   *)
(***************************************************************************)
Positive(h) == \A k \in 1..Len(h) : RGt(h[k], Zero)

NonDecreasing(h) == \A k \in 2..Len(h) : RGe(h[k], h[k - 1])

AllEqual(h) == \A k \in 1..Len(h) : h[k] = h[1]

Hundred == R(100, 1)

\* C13: for a history of positive values the reported max_drawdown_pct lies
\* in [0, 100], and it is 0 when the history never falls.
C13_DrawdownBound ==
    (pc = "done" /\ Positive(portfolio_history) /\ IsNum(max_drawdown_pct)) =>
        /\ RGe(max_drawdown_pct, Zero)
        /\ RLe(max_drawdown_pct, Hundred)
        /\ NonDecreasing(portfolio_history) => max_drawdown_pct = Zero

\* a history that rose above its first value and then fell
C13_Witness ==
    /\ pc = "done"
    /\ Positive(portfolio_history)
    /\ \E k \in 2..Len(portfolio_history) :
           RGt(portfolio_history[k - 1], portfolio_history[1])
           /\ RLt(portfolio_history[k], portfolio_history[k - 1])
    /\ RGt(max_drawdown_pct, Zero)

\* C14: a history of one value and a history whose values are all equal
\* report a Sharpe ratio of 0.
C14_SharpeDegeneracy ==
    (pc = "done" /\ (Len(portfolio_history) = 1 \/ AllEqual(portfolio_history))) =>
        sharpe_ratio = Zero

\* a history of several equal values
C14_Witness ==
    /\ pc = "done"
    /\ Len(portfolio_history) >= 2
    /\ AllEqual(portfolio_history)
    /\ sharpe_ratio = Zero

\* C15: win_rate is 100 times the share of the SELL entries with pnl > 0
\* among the SELL entries, 0 without a SELL entry, whatever BUY entries the
\* log holds, and lies in [0, 100].
C15_WinRate ==
    pc = "done" =>
        LET sells == Cardinality({k \in 1..Len(trade_log) : trade_log[k].type = "SELL"})
            wins == Cardinality({k \in 1..Len(trade_log) :
                                    trade_log[k].type = "SELL"
                                    /\ RGt(trade_log[k].pnl, Zero)})
        IN /\ IsNum(win_rate)
           /\ sells = 0 => win_rate = Zero
           /\ win_rate.n * sells = 100 * wins * win_rate.d
           /\ RGe(win_rate, Zero) /\ RLe(win_rate, Hundred)

\* a log with a BUY entry and a winning SELL entry
C15_Witness ==
    /\ pc = "done"
    /\ \E k \in 1..Len(trade_log) : trade_log[k].type = "BUY"
    /\ \E k \in 1..Len(trade_log) :
           trade_log[k].type = "SELL" /\ RGt(trade_log[k].pnl, Zero)

(***************************************************************************)
(* The trade steps of one row                                              *)
(***************************************************************************)
\* the price of the row's symbol is available at the row's timestamp
PriceAvailableAt(k) ==
    sim_df[k].symbol \in Targets /\ sim_df[k].close[sim_df[k].symbol] # NaN

\* the shares of the row's symbol that row k finds
SharesBefore(k) ==
    IF sim_df[k].symbol \in Targets
    THEN Before(k).positions[sim_df[k].symbol].shares
    ELSE Zero

\* row k left exactly one more entry in the trade log, of the given type
\* and pnl
LoggedAt(k, type, pnl) ==
    /\ Len(After(k).trade_log) = Len(Before(k).trade_log) + 1
    /\ SubSeq(After(k).trade_log, 1, Len(Before(k).trade_log)) = Before(k).trade_log
    /\ LET entry == After(k).trade_log[Len(After(k).trade_log)]
       IN /\ entry.type = type
          /\ entry.symbol = sim_df[k].symbol
          /\ entry.pnl = pnl

BuyCaseAt(k) ==
    /\ sim_df[k].signal = "BUY"
    /\ PriceAvailableAt(k)
    /\ RGt(Before(k).cash, MinCash)
    /\ RGt(sim_df[k].position_size, Zero)

\* C16: a BUY at an available price, with cash > 1.0 and position_size > 0,
\* takes cash * position_size from cash, adds
\* cash * position_size * (1 - fee_pct) / price shares to the row's symbol
\* and to no other, and logs one BUY entry with pnl 0.
C16_BuyStep ==
    \A k \in LastRow :
        BuyCaseAt(k) =>
            LET s == sim_df[k].symbol
                c == Before(k).cash
                ps == sim_df[k].position_size
                p == sim_df[k].close[s]
            IN /\ After(k).cash = RSub(c, RMul(c, ps))
               /\ After(k).positions[s].shares =
                     RAdd(Before(k).positions[s].shares,
                          RDiv(RMul(RMul(c, ps), RSub(One, fee_pct)), p))
               /\ \A o \in Targets \ {s} : After(k).positions[o] = Before(k).positions[o]
               /\ LoggedAt(k, "BUY", Zero)

\* a partial BUY of a symbol that is held already, at a price other than 1
C16_Witness ==
    \E k \in Rows :
        /\ BuyCaseAt(k)
        /\ RGt(SharesBefore(k), Zero)
        /\ sim_df[k].position_size = R(1, 5)
        /\ sim_df[k].close[sim_df[k].symbol] # One

SellCaseAt(k) ==
    /\ sim_df[k].signal = "SELL"
    /\ PriceAvailableAt(k)
    /\ RGt(SharesBefore(k), Zero)
    /\ RGt(sim_df[k].position_size, Zero)

\* C17: a SELL at an available price, of a symbol with shares > 0 and with
\* position_size > 0, sells shares * position_size, adds
\* shares * position_size * price * (1 - fee_pct) to cash and logs one SELL
\* entry with pnl = (price - avg_cost) * shares * position_size;
\* position_size = 1.0 leaves no shares.
C17_SellStep ==
    \A k \in LastRow :
        SellCaseAt(k) =>
            LET s == sim_df[k].symbol
                sh == Before(k).positions[s].shares
                ps == sim_df[k].position_size
                p == sim_df[k].close[s]
                sold == RMul(sh, ps)
                left == RSub(sh, sold)
            IN /\ After(k).cash =
                     RAdd(Before(k).cash, RMul(RMul(sold, p), RSub(One, fee_pct)))
               /\ After(k).positions[s].shares =
                     IF RLt(left, ShareEpsilon) THEN Zero ELSE left
               /\ ps = One => After(k).positions[s].shares = Zero
               /\ \A o \in Targets \ {s} : After(k).positions[o] = Before(k).positions[o]
               /\ LoggedAt(k, "SELL", RMul(RSub(p, Before(k).positions[s].avg_cost), sold))

\* a partial SELL and a SELL of everything, at a price above the avg_cost
C17_Witness ==
    \E j, k \in Rows :
        /\ SellCaseAt(j) /\ sim_df[j].position_size = R(1, 2)
        /\ SellCaseAt(k) /\ sim_df[k].position_size = One
        /\ RGt(sim_df[k].close[sim_df[k].symbol],
               Before(k).positions[sim_df[k].symbol].avg_cost)

NoOpCaseAt(k) ==
    \/ sim_df[k].signal = "HOLD"
    \/ sim_df[k].signal = "BUY" /\ (RLe(Before(k).cash, MinCash)
                                     \/ RLe(sim_df[k].position_size, Zero))
    \/ sim_df[k].signal = "SELL" /\ (SharesBefore(k) = Zero
                                      \/ RLe(sim_df[k].position_size, Zero))

\* C18: a HOLD, a BUY with cash <= 1.0 or position_size <= 0, and a SELL
\* of a symbol without shares or with position_size <= 0 leave cash,
\* positions and trade log unchanged; the row still appends its
\* mark-to-market value.
C18_NoOpEvents ==
    \A k \in LastRow :
        NoOpCaseAt(k) =>
            /\ SameBook(After(k), Before(k))
            /\ Len(portfolio_history) = k

\* a BUY without cash and a SELL of a held symbol with position_size 0,
\* both at an available price
C18_Witness ==
    \E j, k \in Rows :
        /\ sim_df[j].signal = "BUY" /\ PriceAvailableAt(j)
        /\ RLe(Before(j).cash, MinCash) /\ RGt(sim_df[j].position_size, Zero)
        /\ sim_df[k].signal = "SELL" /\ PriceAvailableAt(k)
        /\ RGt(SharesBefore(k), Zero) /\ sim_df[k].position_size = Zero

\* row k is an executed BUY of a symbol whose position was closed before
ReopenedAt(k) ==
    /\ BuyCaseAt(k)
    /\ SharesBefore(k) = Zero
    /\ \E j \in 1..(k - 1) :
          sim_df[j].signal = "SELL" /\ sim_df[j].symbol = sim_df[k].symbol /\ Executed(j)

\* C19: a position with 0 shares has avg_cost 0; after an executed SELL the
\* shares are 0 or at least 1e-9, a remainder under 1e-9 being reset to
\* {0, 0}; the avg_cost of a lot opened after a close is the price of its
\* own BUY.
C19_PositionReset ==
    /\ \A s \in Targets :
          /\ RGe(positions[s].shares, Zero)
          /\ positions[s].shares = Zero => positions[s].avg_cost = Zero
    /\ \A k \in LastRow :
          /\ (sim_df[k].signal = "SELL" /\ Executed(k)) =>
                LET after == After(k).positions[sim_df[k].symbol]
                    left == RSub(SharesBefore(k),
                                 RMul(SharesBefore(k), sim_df[k].position_size))
                IN /\ after.shares = Zero \/ RGe(after.shares, ShareEpsilon)
                   /\ RLt(left, ShareEpsilon) =>
                         after = [shares |-> Zero, avg_cost |-> Zero]
          /\ ReopenedAt(k) =>
                After(k).positions[sim_df[k].symbol].avg_cost =
                    sim_df[k].close[sim_df[k].symbol]

\* a lot bought, sold whole and bought again at another price
C19_Witness ==
    \E k \in Rows :
        /\ ReopenedAt(k)
        /\ \E j \in 1..(k - 1) :
              /\ sim_df[j].symbol = sim_df[k].symbol
              /\ sim_df[j].signal = "BUY" /\ Executed(j)
              /\ sim_df[j].close[sim_df[j].symbol] # sim_df[k].close[sim_df[k].symbol]

(***************************************************************************)
(* Two events of one timestamp, in either order                            *)
(***************************************************************************)
\* rows k - 1 and k carry the same timestamp (and so different symbols)
TiedPairAt(k) ==
    /\ k >= 2
    /\ sim_df[k - 1].timestamp = sim_df[k].timestamp
    /\ sim_df[k - 1].symbol # sim_df[k].symbol

\* the state left by rows k - 1 and k when row k is iterated first
Swapped(k) ==
    LET found == SimState(Before(k - 1).cash, Before(k - 1).positions, <<>>,
                          Before(k - 1).trade_log)
    IN ProcessRow(ProcessRow(found, sim_df[k]), sim_df[k - 1])

Entries(log) == {log[i] : i \in 1..Len(log)}

SameOutcome(st, book) ==
    /\ st.cash = book.cash
    /\ st.positions = book.positions
    /\ Entries(st.trade_log) = Entries(book.trade_log)

\* C20 as stated: two events of different symbols that share a timestamp
\* leave the same cash, positions and set of trade log entries in either
\* order.
C20_OrderIndependence ==
    \A k \in LastRow :
        (TiedPairAt(k) /\ Representable(Swapped(k))) =>
            SameOutcome(Swapped(k), After(k))

\* C20, amended: two events of different symbols that share a timestamp,
\* neither of them a BUY, leave the same cash, positions and set of trade
\* log entries in either order.
C20_OrderIndependenceWithoutBuy ==
    \A k \in LastRow :
        (TiedPairAt(k) /\ Representable(Swapped(k))
         /\ sim_df[k - 1].signal # "BUY" /\ sim_df[k].signal # "BUY") =>
            SameOutcome(Swapped(k), After(k))

\* two executed SELLs of different symbols at one timestamp, one of them
\* closing its position
C20_Witness ==
    \E k \in Rows :
        /\ TiedPairAt(k)
        /\ sim_df[k - 1].signal = "SELL" /\ Executed(k - 1)
        /\ sim_df[k].signal = "SELL" /\ Executed(k)
        /\ sim_df[k].position_size = One
        /\ Representable(Swapped(k))

(***************************************************************************)
(* Cash and shares over the run                                            *)
(***************************************************************************)
\* C22: cash and the shares of every symbol are never negative; the shares
\* of a symbol fall only in an executed SELL of that symbol and rise only in
\* an executed BUY of that symbol.
C22_NoLeverageNoShort ==
    /\ RGe(cash, Zero)
    /\ \A s \in Targets : RGe(positions[s].shares, Zero)
    /\ \A k \in LastRow : \A s \in Targets :
          /\ RLt(After(k).positions[s].shares, Before(k).positions[s].shares) =>
                sim_df[k].signal = "SELL" /\ sim_df[k].symbol = s /\ Executed(k)
          /\ RGt(After(k).positions[s].shares, Before(k).positions[s].shares) =>
                sim_df[k].signal = "BUY" /\ sim_df[k].symbol = s /\ Executed(k)

\* all cash spent in a BUY, and the position closed while the other symbol
\* is asked for without cash
C22_Witness ==
    \E j, k \in Rows :
        /\ j < k
        /\ sim_df[j].signal = "BUY" /\ Executed(j) /\ After(j).cash = Zero
        /\ sim_df[k].signal = "BUY" /\ sim_df[k].symbol # sim_df[j].symbol
        /\ PriceAvailableAt(k) /\ ~Executed(k)
        /\ positions[sim_df[j].symbol].shares = Zero

(***************************************************************************)
(* The rows returned by generate_signals                                   *)
(***************************************************************************)
\* C12: the rows returned by generate_signals ascend by timestamp, and two
\* rows of one timestamp stand in ascending order of their symbols.
C12_SignalStreamOrdering ==
    gpc = "returned" =>
        \A a, b \in 1..Len(full_signals) :
            a < b =>
                \/ full_signals[a].timestamp < full_signals[b].timestamp
                \/ /\ full_signals[a].timestamp = full_signals[b].timestamp
                   /\ Rank(full_signals[a].symbol) < Rank(full_signals[b].symbol)

(***************************************************************************)
(* The SELL rows of strategy.py in the simulation                          *)
(***************************************************************************)
\* C21: in a run on the signals of strategy.py, a SELL row of a symbol that
\* the simulator holds, processed at an available price, leaves 0 shares of
\* that symbol.
C21_StrategySellLiquidates ==
    \A k \in LastRow :
        (/\ sim_df[k].signal = "SELL"
         /\ PriceAvailableAt(k)
         /\ RGt(SharesBefore(k), Zero))
        => After(k).positions[sim_df[k].symbol].shares = Zero

(***************************************************************************)
(* The value of the book across a trade                                    *)
(***************************************************************************)
\* what row k adds to cash + shares * price of its symbol, the price being
\* the one of the row: the value after the row minus the value before it
ValueChangeAt(k) ==
    LET s == sim_df[k].symbol
    IN RAdd(RSub(After(k).cash, Before(k).cash),
            RMul(RSub(After(k).positions[s].shares, Before(k).positions[s].shares),
                 sim_df[k].close[s]))

\* the fee of the trade of row k: investment * fee_pct of a BUY,
\* sale_value * fee_pct of a SELL
FeeAt(k) ==
    LET s == sim_df[k].symbol
        ps == sim_df[k].position_size
    IN IF sim_df[k].signal = "BUY"
       THEN RMul(RMul(Before(k).cash, ps), fee_pct)
       ELSE RMul(RMul(RMul(Before(k).positions[s].shares, ps), sim_df[k].close[s]), fee_pct)

\* the shares that the SELL of row k leaves before the reset
LeftAt(k) ==
    LET sh == Before(k).positions[sim_df[k].symbol].shares
    IN RSub(sh, RMul(sh, sim_df[k].position_size))

\* the SELL of row k leaves a remainder under the threshold, which the reset
\* drops
DustAt(k) ==
    /\ sim_df[k].signal = "SELL" /\ Executed(k)
    /\ RGt(LeftAt(k), Zero) /\ RLt(LeftAt(k), ShareEpsilon)

\* C23: every executed trade leaves the value of the book at the execution
\* price (cash + shares * price of the traded symbol) at its value before
\* the trade minus the fee of the trade, and the other symbols as they were.
C23_FeeOnlyValueLoss ==
    \A k \in LastRow :
        Executed(k) =>
            LET s == sim_df[k].symbol
            IN /\ IsNum(FeeAt(k))
               /\ ValueChangeAt(k) = RNeg(FeeAt(k))
               /\ \A o \in Targets \ {s} : After(k).positions[o] = Before(k).positions[o]

\* C23, amended: the value after the trade is the value before it minus the
\* fee and minus the value of the remainder under 1e-9 shares that a SELL
\* drops; no trade raises the value.
C23_FeeAndDustValueLoss ==
    \A k \in LastRow :
        Executed(k) =>
            LET s == sim_df[k].symbol
                p == sim_df[k].close[s]
                dropped == IF DustAt(k) THEN RMul(LeftAt(k), p) ELSE Zero
            IN /\ IsNum(FeeAt(k)) /\ IsNum(dropped)
               /\ ValueChangeAt(k) = RNeg(RAdd(FeeAt(k), dropped))
               /\ RLe(ValueChangeAt(k), Zero)
               /\ \A o \in Targets \ {s} : After(k).positions[o] = Before(k).positions[o]

\* a BUY of a fraction of a share, and a SELL of half of it whose remainder
\* is dropped
C23_Witness ==
    \E j \in Rows : \E k \in LastRow :
        /\ sim_df[j].signal = "BUY" /\ Executed(j)
        /\ sim_df[k].symbol = sim_df[j].symbol
        /\ DustAt(k)
        /\ positions[sim_df[k].symbol].shares = Zero

(***************************************************************************)
(* The BUY and SELL rows of one symbol                                     *)
(***************************************************************************)
TradesOf(rows, s) == SelectSeq(rows, LAMBDA r : r.symbol = s /\ r.signal # "HOLD")

Alternates(trades) ==
    \A k \in 1..Len(trades) :
        /\ trades[k].signal = IF k % 2 = 1 THEN "BUY" ELSE "SELL"
        /\ k > 1 => trades[k - 1].timestamp < trades[k].timestamp

\* C24: in the rows returned by generate_signals of strategy.py and of
\* temp.py, the BUY and SELL rows of each symbol, in the order returned, have
\* ascending timestamps, start with a BUY and alternate BUY, SELL, BUY, ...;
\* every BUY has position_size > 0 and every position_size is in [0, 1].
C24_FlatLongAlternation ==
    gpc = "returned" =>
        /\ \A s \in {Alphabet[i] : i \in 1..Len(Alphabet)} :
              Alternates(TradesOf(full_signals, s))
        /\ \A k \in 1..Len(full_signals) :
              /\ RLe(Zero, full_signals[k].position_size)
              /\ RLe(full_signals[k].position_size, One)
              /\ full_signals[k].signal = "BUY" => RGt(full_signals[k].position_size, Zero)

\* a symbol bought, sold and bought again in the returned rows
C24_Witness ==
    /\ gpc = "returned"
    /\ \E s \in {Alphabet[i] : i \in 1..Len(Alphabet)} :
          Len(TradesOf(full_signals, s)) >= 3

====
